---- MODULE Spec2Model ----
(***************************************************************************)
(* Patent search dashboard (app1.py): main() runs one search per user      *)
(* interaction: split the keyword input, search_patents (one HTTP GET),    *)
(* process_patent_data, then either a warning or the table, the three      *)
(* visualizations and the CSV download.                                    *)
(*                                                                         *)
(* Text the program looks inside (the keyword input) is a sequence of      *)
(* one-character strings; opaque text (field values) is a string.          *)
(***************************************************************************)
EXTENDS Integers, Sequences, FiniteSets, TLC

VARIABLES
    pc,             \* position of main() in the current script run
    keyword_input,  \* main: text of the keyword box (line 124)
    search_button,  \* main: whether the button was pressed (line 125)
    keywords,       \* argument of search_patents (line 128)
    request,        \* the HTTP GET in flight (lines 33-43), NoRequest otherwise
    gets,           \* number of HTTP GETs issued in the current script run
    response,       \* search_patents: what the GET came back with (lines 43-46)
    results,        \* main: value returned by search_patents (line 131)
    df,             \* main: the table (line 132), mutated by create_visualizations
    ui,             \* what the page shows in this script run, in call order
    steps,          \* calls and returns of the pipeline functions in this run
    fault           \* the exception that ended the script run, NoFault otherwise

vars == <<pc, keyword_input, search_button, keywords, request, gets, response, results,
          df, ui, steps, fault>>

----------------------------------------------------------------------------
(* Bounds of the model *)

MaxLen == 4         \* longest keyword input typed
MaxRecords == 2     \* longest "patents" list of the detailed responses
NumCountries == 11  \* distinct countries of the wide responses
MaxExtra == 1       \* rows added to a wide response beyond one per country

(* Program constants *)

per_page == 1000    \* search_patents default page size
TopN == 10          \* head(10) of the country counts

None == "<None>"    \* Python None / JSON null, where text is expected
NoneList == <<[none |-> TRUE]>>  \* None, where a list of records is expected
NaN == {}           \* a missing Year; a present one is {year}

----------------------------------------------------------------------------
(* main: keyword_input.split(",") and k.strip()                            *)

Chars == {"a", "b", " ", ","}

Inputs == UNION {[1..n -> Chars] : n \in 0..MaxLen}

CommaAt(s) == {i \in 1..Len(s) : s[i] = ","}

Min(S) == CHOOSE m \in S : \A n \in S : m <= n

RECURSIVE split(_)
split(s) ==
    IF CommaAt(s) = {} THEN <<s>>
    ELSE LET i == Min(CommaAt(s))
         IN  <<SubSeq(s, 1, i - 1)>> \o split(SubSeq(s, i + 1, Len(s)))

RECURSIVE lstrip(_)
lstrip(s) == IF s # <<>> /\ Head(s) = " " THEN lstrip(Tail(s)) ELSE s

RECURSIVE rstrip(_)
rstrip(s) ==
    IF s # <<>> /\ s[Len(s)] = " " THEN rstrip(SubSeq(s, 1, Len(s) - 1)) ELSE s

strip(s) == rstrip(lstrip(s))

\* [k.strip() for k in keyword_input.split(",")]
Keywords(input) == LET ps == split(input) IN [i \in 1..Len(ps) |-> strip(ps[i])]

----------------------------------------------------------------------------
(* search_patents: the query and the request                               *)

API_KEY == "USPTO_API_KEY"

fields == <<"patent_number", "patent_date", "patent_title", "patent_abstract",
            "patent_firstnamed_assignee_country", "patent_type">>

json_dumps(v) == <<"json", v>>

json_loads(t) == t[2]

\* a query with the last keyword's predicate missing
BuildQueryShort(ks) ==
    "_and" :> [i \in 1..(Len(ks) - 1) |-> "_text_phrase" :> ("patent_abstract" :> ks[i])]

\* {"_and": [{"_text_phrase": {"patent_abstract": kw}} for kw in keywords]}
BuildQuery(ks) ==
    "_and" :> [i \in 1..Len(ks) |-> "_text_phrase" :> ("patent_abstract" :> ks[i])]

BuildRequest(ks) ==
    [method  |-> "GET",
     url     |-> "https://api.patentsview.org/patents/query",
     headers |-> ("X-Api-Key" :> API_KEY),
     params  |-> [q |-> json_dumps(BuildQuery(ks)),
                  f |-> json_dumps(fields),
                  o |-> json_dumps("per_page" :> per_page)]]

NoRequest == [method |-> "none"]

----------------------------------------------------------------------------
(* The responses of the patent service                                     *)

Wordy == "a new device for X"

FullRecord(num, date, country, abstract) ==
    "patent_number" :> num @@ "patent_date" :> date @@ "patent_title" :> "T"
    @@ "patent_abstract" :> abstract
    @@ "patent_firstnamed_assignee_country" :> country
    @@ "patent_type" :> "utility"

Drop(r, ks) == [k \in (DOMAIN r) \ ks |-> r[k]]

Records ==
    {FullRecord("1", d, c, Wordy) : d \in {"2020-05-01", "2021-07-01"}, c \in {"US", "KR"}}
    \cup {FullRecord("2", "", "US", Wordy),
          FullRecord("2", "not a date", "US", Wordy),
          FullRecord("2", None, None, None),
          FullRecord("4", "2020-05-01", "US", "the method")}
    \cup {Drop(FullRecord("3", "2020-05-01", "US", Wordy), ks) :
            ks \in {{"patent_date"},
                    {"patent_firstnamed_assignee_country", "patent_abstract"},
                    {"patent_number", "patent_date", "patent_title", "patent_abstract",
                     "patent_firstnamed_assignee_country", "patent_type"}}}

DetailedLists == UNION {[1..n -> Records] : n \in 0..MaxRecords}

CountryCodes == <<"US", "KR", "JP", "DE", "FR", "CN", "GB", "CA", "IT", "NL",
                  "SE", "CH", "TW", "IL", "AU", "IN">>

WideRecord(k) == FullRecord("9", "2020-05-01", CountryCodes[k], Wordy)

\* one record per country 1..k, in ascending or descending order, then the extras
WideList(k, descending, extras) ==
    [i \in 1..k |-> WideRecord(IF descending THEN k + 1 - i ELSE i)]
    \o [i \in 1..Len(extras) |-> WideRecord(extras[i])]

WideLists ==
    UNION {{WideList(k, d, e) : d \in BOOLEAN,
                               e \in UNION {[1..n -> 1..k] : n \in 0..MaxExtra}} :
           k \in {j \in 0..NumCountries : j <= Len(CountryCodes)}}

PatentLists == DetailedLists \cup WideLists

DataWith(patents) == "patents" :> patents @@ "count" :> Len(patents)

DataNull == "patents" :> NoneList @@ "count" :> 0

DataNoKey == "count" :> 0

Failures == {"ConnectionError", "HTTPError", "JSONDecodeError"}

Ok(data) == [kind |-> "ok", body |-> data]

Fail(e) == [kind |-> e, body |-> None]

NoResponse == [kind |-> "none", body |-> None]

\* the exception classes of requests before response.json() raised its own
RequestExceptionsWithoutJson(e) == e \in {"ConnectionError", "HTTPError"}

\* except requests.exceptions.RequestException: the exception classes it catches
IsRequestException(e) == e \in {"ConnectionError", "HTTPError", "JSONDecodeError"}

EmptyResult == "patents" :> <<>>

----------------------------------------------------------------------------
(* process_patent_data                                                     *)

Unbound == [unbound |-> TRUE]

Bound(v) == "unbound" \notin DOMAIN v

Get(d, k, default) == IF k \in DOMAIN d THEN d[k] ELSE default

\* not v, for a list or None
Falsy(v) == v = NoneList \/ v = <<>>

Columns6 == <<"Patent Number", "Date", "Title", "Country", "Type", "Abstract">>

patent_entry(patent) ==
    "Patent Number" :> Get(patent, "patent_number", "")
    @@ "Date" :> Get(patent, "patent_date", "")
    @@ "Title" :> Get(patent, "patent_title", "")
    @@ "Country" :> Get(patent, "patent_firstnamed_assignee_country", "")
    @@ "Type" :> Get(patent, "patent_type", "")
    @@ "Abstract" :> Get(patent, "patent_abstract", "")

\* a table that keeps the first of equal entries only
process_drop_duplicates(data) ==
    LET ps == Get(data, "patents", NoneList)
        es == [i \in 1..Len(ps) |-> [c \in {"Patent Number", "Date", "Title", "Country",
                                            "Type", "Abstract"} |->
                 Get(ps[i], CASE c = "Patent Number" -> "patent_number"
                              [] c = "Date" -> "patent_date"
                              [] c = "Title" -> "patent_title"
                              [] c = "Country" -> "patent_firstnamed_assignee_country"
                              [] c = "Type" -> "patent_type"
                              [] OTHER -> "patent_abstract", "")]]
        keep == {i \in 1..Len(ps) : \A j \in 1..(i - 1) : es[j] # es[i]}
    IN  IF Falsy(ps) THEN [columns |-> <<>>, rows |-> <<>>]
        ELSE [columns |-> <<"Patent Number", "Date", "Title", "Country", "Type", "Abstract">>,
              rows |-> [p \in 1..Cardinality(keep) |->
                          es[CHOOSE i \in keep : Cardinality({j \in keep : j < i}) = p - 1]]]

\* a table that has the six columns also when there is no record
process_always_six_columns(data) ==
    LET ps == Get(data, "patents", NoneList)
    IN  [columns |-> <<"Patent Number", "Date", "Title", "Country", "Type", "Abstract">>,
         rows |-> IF Falsy(ps) THEN <<>>
                  ELSE [i \in 1..Len(ps) |->
                          "Patent Number" :> Get(ps[i], "patent_number", "")
                          @@ "Date" :> Get(ps[i], "patent_date", "")
                          @@ "Title" :> Get(ps[i], "patent_title", "")
                          @@ "Country" :> Get(ps[i], "patent_firstnamed_assignee_country", "")
                          @@ "Type" :> Get(ps[i], "patent_type", "")
                          @@ "Abstract" :> Get(ps[i], "patent_abstract", "")]]

\* pd.DataFrame(): no columns, no rows
EmptyFrame == [columns |-> <<>>, rows |-> <<>>]

\* pd.DataFrame(patents): the columns are the keys of the entries
DataFrame(entries) == [columns |-> Columns6, rows |-> entries]

process_patent_data(data) ==
    IF Falsy(Get(data, "patents", NoneList)) THEN EmptyFrame
    ELSE DataFrame([i \in 1..Len(data["patents"]) |-> patent_entry(data["patents"][i])])

\* "if df is None" in place of df.empty
EmptyIsNone(d) == ~Bound(d)

\* df.empty: some axis has length 0
Empty(d) == Len(d.columns) = 0 \/ Len(d.rows) = 0

----------------------------------------------------------------------------
(* create_visualizations                                                   *)

Column(d, c) == [i \in 1..Len(d.rows) |-> d.rows[i][c]]

\* the dates pd.to_datetime parses, with their year
DateYear == "2020-05-01" :> 2020 @@ "2021-07-01" :> 2021

\* pd.to_datetime maps None and the empty string to NaT
IsNullDate(s) == s = None \/ s = ""

\* pd.to_datetime(errors="coerce"): never raises
to_datetime_coerce(col) == FALSE

\* pd.to_datetime raises on a value that is neither null nor a date
to_datetime_raises(col) ==
    \E i \in DOMAIN col : ~IsNullDate(col[i]) /\ col[i] \notin DOMAIN DateYear

\* .dt.year of one value: NaN for NaT
year(s) == IF s \in DOMAIN DateYear THEN {DateYear[s]} ELSE NaN

\* df["Year"] = ... on the caller's table: a new last column
WithYear(d) ==
    [columns |-> IF \E j \in DOMAIN d.columns : d.columns[j] = "Year"
                 THEN d.columns ELSE Append(d.columns, "Year"),
     rows    |-> [i \in 1..Len(d.rows) |-> d.rows[i] @@ "Year" :> year(d.rows[i]["Date"])]]

RECURSIVE SortedSeq(_)
SortedSeq(S) == IF S = {} THEN <<>> ELSE <<Min(S)>> \o SortedSeq(S \ {Min(S)})

\* df["Year"].value_counts().sort_index(): NaN dropped, ascending by year
yearly_patents(d) ==
    LET col == Column(d, "Year")
        ys  == SortedSeq(UNION {col[i] : i \in DOMAIN col})
    IN  [p \in 1..Len(ys) |->
            [value |-> ys[p], count |-> Cardinality({i \in DOMAIN col : col[i] = {ys[p]}})]]

TieBreaks == {"first", "last"}

\* the counts in order of first appearance, not sorted by count
value_counts_unsorted(col, tb) ==
    LET firsts == {i \in DOMAIN col :
                     col[i] # None /\ \A j \in 1..(i - 1) : col[j] # col[i]}
        order  == SortedSeq(firsts)
    IN  [p \in 1..Len(order) |->
            [value |-> col[order[p]],
             count |-> Cardinality({i \in DOMAIN col : col[i] = col[order[p]]})]]

\* Series.value_counts(): None dropped, one entry per distinct value, by count
\* descending; tb is how the sort orders equal counts
value_counts(col, tb) ==
    LET firsts == {i \in DOMAIN col :
                     col[i] # None /\ \A j \in 1..(i - 1) : col[j] # col[i]}
        order  == SortedSeq(firsts)
        n      == Len(order)
        cnt    == [r \in 1..n |-> Cardinality({i \in DOMAIN col : col[i] = col[order[r]]})]
        pos    == [r \in 1..n |->
                     1 + Cardinality({q \in 1..n :
                           \/ cnt[q] > cnt[r]
                           \/ cnt[q] = cnt[r] /\ (IF tb = "first" THEN q < r ELSE q > r)})]
    IN  [p \in 1..n |->
            LET r == CHOOSE r \in 1..n : pos[r] = p
            IN  [value |-> col[order[r]], count |-> cnt[r]]]

head(s, n) == SubSeq(s, 1, IF Len(s) < n THEN Len(s) ELSE n)

country_patents(d, tb) == head(value_counts(Column(d, "Country"), tb), TopN)

\* px.bar(x=counts.index, y=counts.values)
bar(counts, title) ==
    [title |-> title,
     x |-> [p \in 1..Len(counts) |-> counts[p].value],
     y |-> [p \in 1..Len(counts) |-> counts[p].count]]

\* text.lower(), punctuation removed, split on whitespace
Words == Wordy :> <<"a", "new", "device", "for", "x">>
         @@ "the method" :> <<"the", "method">>
         @@ "" :> <<>>

stop_words == {"a", "for", "the"} \cup {"method", "device", "system", "apparatus", "invention"}

NotStopWord(w) == w \notin stop_words

fillna(v) == IF v = None THEN "" ELSE v

RECURSIVE JoinWords(_, _)
JoinWords(col, i) ==
    IF i > Len(col) THEN <<>> ELSE Words[fillna(col[i])] \o JoinWords(col, i + 1)

\* the words of the text handed to WordCloud.generate
filtered_words(d) == SelectSeq(JoinWords(Column(d, "Abstract"), 1), NotStopWord)

\* WordCloud.generate counts words of two or more characters and raises
\* ValueError when there is none
CloudWord(w) == w \notin {"a", "x"}

generate_raises(ws) == SelectSeq(ws, CloudWord) = <<>>

\* df.to_csv(index=False): header and one line per row, missing values empty
YearText == 2020 :> <<"2020", "2020.0">> @@ 2021 :> <<"2021", "2021.0">>

CsvCell(d, i, c) ==
    LET v == d.rows[i][c]
    IN  IF c = "Year"
        THEN IF v = NaN THEN ""
             ELSE LET y == CHOOSE y \in v : TRUE
                  IN  YearText[y][IF \E k \in DOMAIN d.rows : d.rows[k][c] = NaN
                                  THEN 2 ELSE 1]
        ELSE fillna(v)

IndexText == <<"0", "1", "2", "3", "4", "5", "6", "7", "8", "9", "10", "11", "12",
               "13", "14", "15", "16", "17", "18", "19">>

\* df.to_csv() without index=False: the row index is the first column
to_csv_with_index(d) ==
    [header |-> <<"">> \o d.columns,
     lines  |-> [i \in 1..Len(d.rows) |->
                    <<IndexText[i]>> \o
                    [j \in 1..Len(d.columns) |-> CsvCell(d, i, d.columns[j])]]]

to_csv(d) ==
    [header |-> d.columns,
     lines  |-> [i \in 1..Len(d.rows) |->
                    [j \in 1..Len(d.columns) |-> CsvCell(d, i, d.columns[j])]]]

----------------------------------------------------------------------------
(* main, one step at a time                                                *)

NoFault == "<none>"

Show(kind, data) == [kind |-> kind, data |-> data]

Init ==
    /\ pc = "idle"
    /\ keyword_input = <<>>
    /\ search_button = FALSE
    /\ keywords = <<>>
    /\ request = NoRequest
    /\ gets = 0
    /\ response = NoResponse
    /\ results = Unbound
    /\ df = Unbound
    /\ ui = <<>>
    /\ steps = <<>>
    /\ fault = NoFault

\* a user interaction re-runs main from the top: lines 121-128
Main(input, button) ==
    /\ pc = "idle"
    /\ keyword_input' = input
    /\ search_button' = button
    /\ request' = NoRequest
    /\ gets' = 0
    /\ response' = NoResponse
    /\ results' = Unbound
    /\ df' = Unbound
    /\ ui' = <<>>
    /\ steps' = <<>>
    /\ fault' = NoFault
    /\ IF button /\ input # <<>>
       THEN keywords' = Keywords(input) /\ pc' = "search"
       ELSE keywords' = <<>> /\ pc' = "skipped"

\* the script run is over; the next interaction starts main afresh
EndRun ==
    /\ pc \in {"skipped", "done", "crashed"}
    /\ pc' = "idle"
    /\ keyword_input' = <<>>
    /\ search_button' = FALSE
    /\ keywords' = <<>>
    /\ request' = NoRequest
    /\ gets' = 0
    /\ response' = NoResponse
    /\ results' = Unbound
    /\ df' = Unbound
    /\ ui' = <<>>
    /\ steps' = <<>>
    /\ fault' = NoFault

\* search_patents up to requests.get: lines 21-43
SearchPatentsCall ==
    /\ pc = "search"
    /\ request' = BuildRequest(keywords)
    /\ gets' = gets + 1
    /\ steps' = Append(steps, "search_patents")
    /\ pc' = "fetching"
    /\ UNCHANGED <<keyword_input, search_button, keywords, response, results, df, ui, fault>>

\* requests.get blocks until the response is there: line 43. The request has
\* left; nothing after this point reads the keyword text again.
AwaitResponse ==
    /\ pc = "fetching"
    /\ request' = NoRequest
    /\ keyword_input' = <<>>
    /\ keywords' = <<>>
    /\ pc' = "waiting"
    /\ UNCHANGED <<search_button, gets, response, results, df, ui, steps, fault>>

\* a failed fetch is followed by one more GET
SearchPatentsRetry(outcome) ==
    /\ pc = "waiting"
    /\ response' = outcome
    /\ IF outcome.kind = "ok"
       THEN results' = outcome.body /\ pc' = "process" /\ UNCHANGED gets
       ELSE gets < 2 /\ gets' = gets + 1 /\ UNCHANGED <<results, pc>>
    /\ UNCHANGED <<keyword_input, search_button, keywords, request, df, ui, steps, fault>>

\* search_patents from the response on: lines 43-48
SearchPatentsReturn(outcome) ==
    /\ pc = "waiting"
    /\ response' = outcome
    /\ IF outcome.kind = "ok"
       THEN /\ results' = outcome.body
            /\ pc' = "process"
            /\ UNCHANGED <<ui, fault>>
       ELSE IF IsRequestException(outcome.kind)
       THEN /\ results' = EmptyResult
            /\ ui' = Append(ui, Show("error", outcome.kind))
            /\ pc' = "process"
            /\ UNCHANGED fault
       ELSE /\ fault' = outcome.kind
            /\ pc' = "crashed"
            /\ UNCHANGED <<results, ui>>
    /\ UNCHANGED <<keyword_input, search_button, keywords, request, gets, df, steps>>

\* df = process_patent_data(results): line 132
ProcessPatentData ==
    /\ pc = "process"
    /\ df' = process_patent_data(results)
    /\ steps' = Append(steps, "process_patent_data")
    /\ pc' = "check"
    /\ UNCHANGED <<keyword_input, search_button, keywords, request, gets, response, results,
                   ui, fault>>

\* if df.empty: st.warning: lines 134-135
NoPatents ==
    /\ pc = "check"
    /\ Empty(df)
    /\ ui' = Append(ui, Show("warning", "No patents found matching the criteria"))
    /\ pc' = "done"
    /\ UNCHANGED <<keyword_input, search_button, keywords, request, gets, response, results,
                   df, steps, fault>>

\* else: st.success, st.dataframe: lines 136-138
ShowResults ==
    /\ pc = "check"
    /\ ~Empty(df)
    /\ ui' = ui \o <<Show("success", Len(df.rows)), Show("dataframe", df)>>
    /\ pc' = "viz"
    /\ UNCHANGED <<keyword_input, search_button, keywords, request, gets, response, results,
                   df, steps, fault>>

\* create_visualizations(df), the Year column: lines 141, 70-72
AddYear ==
    /\ pc = "viz"
    /\ steps' = Append(steps, "create_visualizations")
    /\ IF to_datetime_raises(Column(df, "Date"))
       THEN fault' = "to_datetime" /\ pc' = "crashed" /\ UNCHANGED df
       ELSE df' = WithYear(df) /\ pc' = "yearly" /\ UNCHANGED fault
    /\ UNCHANGED <<keyword_input, search_button, keywords, request, gets, response, results, ui>>

\* the yearly bar chart: lines 75-82
YearlyChart ==
    /\ pc = "yearly"
    /\ ui' = Append(ui, Show("year_chart", bar(yearly_patents(df), "Patents by Year")))
    /\ pc' = "country"
    /\ UNCHANGED <<keyword_input, search_button, keywords, request, gets, response, results,
                   df, steps, fault>>

\* the country bar chart: lines 85-92
CountryChart(tb) ==
    /\ pc = "country"
    /\ ui' = Append(ui, Show("country_chart",
                 bar(country_patents(df, tb), "Top 10 Countries by Number of Patents")))
    /\ pc' = "cloud"
    /\ UNCHANGED <<keyword_input, search_button, keywords, request, gets, response, results,
                   df, steps, fault>>

\* the word cloud: lines 95-117
WordCloud ==
    /\ pc = "cloud"
    /\ IF generate_raises(filtered_words(df))
       THEN fault' = "generate" /\ pc' = "crashed" /\ UNCHANGED ui
       ELSE /\ ui' = Append(ui, Show("wordcloud", filtered_words(df)))
            /\ pc' = "download"
            /\ UNCHANGED fault
    /\ UNCHANGED <<keyword_input, search_button, keywords, request, gets, response, results,
                   df, steps>>

\* the CSV download button: lines 144-151
Download ==
    /\ pc = "download"
    /\ ui' = Append(ui, Show("download", to_csv(df)))
    /\ steps' = Append(steps, "download_button")
    /\ pc' = "done"
    /\ UNCHANGED <<keyword_input, search_button, keywords, request, gets, response, results,
                   df, fault>>

Next ==
    \/ \E input \in Inputs, button \in BOOLEAN : Main(input, button)
    \/ SearchPatentsCall
    \/ AwaitResponse
    \/ \E patents \in PatentLists : SearchPatentsReturn(Ok(DataWith(patents)))
    \/ SearchPatentsReturn(Ok(DataNull))
    \/ SearchPatentsReturn(Ok(DataNoKey))
    \/ \E e \in Failures : SearchPatentsReturn(Fail(e))
    \/ ProcessPatentData
    \/ NoPatents
    \/ ShowResults
    \/ AddYear
    \/ YearlyChart
    \/ \E tb \in TieBreaks : CountryChart(tb)
    \/ WordCloud
    \/ Download
    \/ EndRun

Spec == Init /\ [][Next]_vars

----------------------------------------------------------------------------
(* Properties                                                              *)

Kinds == {ui[i].kind : i \in DOMAIN ui}

Rendered == {"year_chart", "country_chart", "wordcloud"}

AfterNormalize == {"check", "viz", "yearly", "country", "cloud", "download", "done"}

\* C1: the query sent by search_patents is one "_and" over exactly one
\* "_text_phrase" predicate on patent_abstract per keyword, in input order,
\* duplicates kept.
C1_OnePredicatePerKeyword ==
    pc = "fetching" =>
        LET q == json_loads(request.params.q)
        IN  /\ DOMAIN q = {"_and"}
            /\ Len(q["_and"]) = Len(keywords)
            /\ \A i \in 1..Len(keywords) :
                 /\ DOMAIN q["_and"][i] = {"_text_phrase"}
                 /\ DOMAIN q["_and"][i]["_text_phrase"] = {"patent_abstract"}
                 /\ q["_and"][i]["_text_phrase"]["patent_abstract"] = keywords[i]

C1_Witness ==
    /\ pc = "fetching"
    /\ Len(keywords) = 2
    /\ keywords[1] = <<"a">>
    /\ keywords[2] = <<"a">>
    /\ Len(json_loads(request.params.q)["_and"]) = 2

ColumnKey ==
    "Patent Number" :> "patent_number" @@ "Date" :> "patent_date"
    @@ "Title" :> "patent_title" @@ "Country" :> "patent_firstnamed_assignee_country"
    @@ "Type" :> "patent_type" @@ "Abstract" :> "patent_abstract"

RawPatents == Get(results, "patents", NoneList)

NoRecords == RawPatents = NoneList \/ Len(RawPatents) = 0

\* C2: the table returned by process_patent_data has no row when the response
\* has no record, and otherwise one row per record in the response's order,
\* each with the six fields, equal to the record's value or "" when it has none.
C2_RowPerRecord ==
    pc = "check" =>
        IF NoRecords THEN Len(df.rows) = 0
        ELSE /\ Len(df.rows) = Len(RawPatents)
             /\ \A i \in 1..Len(RawPatents) :
                  /\ DOMAIN df.rows[i] = DOMAIN ColumnKey
                  /\ \A c \in DOMAIN ColumnKey :
                       df.rows[i][c] = IF ColumnKey[c] \in DOMAIN RawPatents[i]
                                       THEN RawPatents[i][ColumnKey[c]] ELSE ""

C2_Witness ==
    /\ pc = "check"
    /\ ~NoRecords
    /\ Len(df.rows) = 2
    /\ df.rows[1] = df.rows[2]
    /\ "patent_date" \notin DOMAIN RawPatents[1]
    /\ df.rows[1]["Date"] = ""

\* C3 as stated: the table returned by process_patent_data has exactly the six
\* columns for every input, the zero-row ones included.
C3_AlwaysSixColumns ==
    pc = "check" => df.columns = Columns6

\* C3 amended: the table has exactly the six columns when the response has at
\* least one record, and no column at all (and no row) when it has none.
C3_SixColumnsUnlessNoRecords ==
    pc = "check" =>
        IF NoRecords THEN df.columns = <<>> /\ df.rows = <<>>
        ELSE df.columns = Columns6

C3_Witness ==
    /\ pc = "check"
    /\ "patents" \notin DOMAIN results
    /\ df.columns = <<>>

\* C4: a fetch that fails (connection, HTTP status, body that is no JSON)
\* leaves an error message on the page and zero records as the result; no
\* fault leaves search_patents and main goes on to normalize zero records.
C4_FetchFailureIsZeroRecords ==
    response.kind \in Failures =>
        /\ results = EmptyResult
        /\ \E i \in DOMAIN ui : ui[i].kind = "error" /\ ui[i].data = response.kind
        /\ fault = NoFault
        /\ pc \in {"process", "check", "done"}
        /\ pc \in {"check", "done"} => Len(df.rows) = 0

C4_Witness ==
    /\ response.kind = "JSONDecodeError"
    /\ pc = "check"
    /\ "process_patent_data" \in {steps[i] : i \in DOMAIN steps}
    /\ ui = <<Show("error", "JSONDecodeError")>>

\* C5: a search that ends with a table of zero rows shows the warning, and
\* never the success message, the table, a chart, the word cloud or the
\* download; create_visualizations is not called.
C5_EmptyTableOnlyWarns ==
    (pc \in AfterNormalize \cup {"crashed"} /\ Bound(df) /\ Len(df.rows) = 0) =>
        /\ pc \in {"check", "done"}
        /\ Kinds \cap ({"success", "dataframe", "download"} \cup Rendered) = {}
        /\ \A i \in DOMAIN steps : steps[i] \notin {"create_visualizations", "download_button"}
        /\ pc = "done" => ui[Len(ui)].kind = "warning"

C5_Witness ==
    /\ pc = "done"
    /\ response.kind = "ok"
    /\ Len(df.rows) = 0
    /\ ui = <<Show("warning", "No patents found matching the criteria")>>

NonEmptyText(k) == k # <<>>

\* C6: the keyword list passed to search_patents is the trimmed pieces of the
\* input in order, without the pieces that are empty after trimming.
C6_NoEmptyKeyword ==
    pc \in {"search", "fetching"} =>
        /\ keywords = SelectSeq(Keywords(keyword_input), NonEmptyText)
        /\ \A i \in DOMAIN keywords : keywords[i] # <<>>

CountryColumn == Column(df, "Country")

CountryRows(c) == Cardinality({i \in DOMAIN CountryColumn : CountryColumn[i] = c})

\* C7: the country chart has at most 10 countries, each once, each with the
\* number of rows of the table that have that country, and no country of the
\* table left out has more rows than a charted one.
C7_TopCountries ==
    \A e \in DOMAIN ui : ui[e].kind = "country_chart" =>
        LET x == ui[e].data.x
            y == ui[e].data.y
            charted == {x[p] : p \in DOMAIN x}
            present == {CountryColumn[i] : i \in DOMAIN CountryColumn} \ {None}
        IN  /\ Len(x) <= 10
            /\ Cardinality(charted) = Len(x)
            /\ charted \subseteq present
            /\ \A p \in DOMAIN x : y[p] = CountryRows(x[p])
            /\ \A c \in present \ charted : \A p \in DOMAIN x : CountryRows(c) <= y[p]
            /\ Cardinality(present) <= 10 => charted = present

C7_Witness ==
    \E e \in DOMAIN ui :
        /\ ui[e].kind = "country_chart"
        /\ Len(ui[e].data.x) = 10
        /\ Cardinality({CountryColumn[i] : i \in DOMAIN CountryColumn}) = 11
        /\ ui[e].data.x[1] = CountryColumn[Len(CountryColumn)]
        /\ ui[e].data.y[1] = 2
        /\ CountryColumn[1] # CountryColumn[Len(CountryColumn)]

\* C8: the CSV offered for download has the six normalized columns plus Year,
\* and one line per row of the table that was displayed, in its order, with
\* that row's six values; the displayed table had six columns, and the Year
\* column is on main's own table, whose six columns are as displayed.
C8_CsvIsTablePlusYear ==
    \A e \in DOMAIN ui : ui[e].kind = "download" =>
        \E t \in 1..(e - 1) :
            LET shown == ui[t].data
                csv   == ui[e].data
            IN  /\ ui[t].kind = "dataframe"
                /\ shown.columns = Columns6
                /\ csv.header = Columns6 \o <<"Year">>
                /\ df.columns = Columns6 \o <<"Year">>
                /\ Len(csv.lines) = Len(shown.rows)
                /\ Len(df.rows) = Len(shown.rows)
                /\ \A i \in 1..Len(shown.rows) :
                     /\ Len(csv.lines[i]) = 7
                     /\ \A j \in 1..6 :
                          /\ df.rows[i][Columns6[j]] = shown.rows[i][Columns6[j]]
                          /\ csv.lines[i][j] =
                               IF shown.rows[i][Columns6[j]] = None THEN ""
                               ELSE shown.rows[i][Columns6[j]]

C8_Witness ==
    /\ pc = "done"
    /\ Len(ui) = 6
    /\ ui[6].kind = "download"
    /\ Len(ui[6].data.lines) = 2
    /\ ui[6].data.lines[1][7] = "2020.0"
    /\ ui[6].data.lines[2][7] = ""

InViz == \E i \in DOMAIN steps : steps[i] = "create_visualizations"

NoLaterStep ==
    /\ pc = "crashed"
    /\ fault = "to_datetime"
    /\ Kinds \cap (Rendered \cup {"download"}) = {}
    /\ \A i \in DOMAIN steps : steps[i] # "download_button"

Pipeline == <<"search_patents", "process_patent_data", "create_visualizations",
              "download_button">>

\* C10: a triggered search issues exactly one GET and runs fetch, normalize,
\* render, export in that order; an interaction without the button or with
\* empty input issues none; a search starts with no response or table left
\* from an earlier one.
C10_OneGetInOrder ==
    /\ gets <= 1
    /\ gets = 1 <=> pc \notin {"idle", "skipped", "search"}
    /\ gets = 1 => search_button
    /\ pc = "skipped" => ~(search_button /\ keyword_input # <<>>)
    /\ pc = "search" => search_button /\ keyword_input # <<>>
    /\ Len(steps) <= Len(Pipeline)
    /\ \A i \in DOMAIN steps : steps[i] = Pipeline[i]
    /\ pc \in {"idle", "skipped", "search", "fetching", "waiting"} =>
         response = NoResponse /\ ~Bound(results) /\ ui = <<>>
    /\ pc \in {"idle", "skipped", "search", "fetching", "waiting", "process"} => ~Bound(df)
    /\ pc \in AfterNormalize => Bound(results) /\ Bound(df)

C10_Witness ==
    /\ pc = "done"
    /\ gets = 1
    /\ steps = Pipeline
    /\ response.kind = "ok"

====
